---- MODULE Spec2Model ----
(***************************************************************************)
(* graphctl: a property graph (nodes, edges, key-value properties) kept in *)
(* a transactional SQL store.  The model covers src/src/db.rs (schema      *)
(* migration, node/edge repository, adjacency queries) and the command     *)
(* handlers of src/src/main.rs that call it.                               *)
(*                                                                         *)
(* Text (String, TEXT columns) is a sequence of one-character strings, so  *)
(* that trim, to_lowercase, splitn and the JSON conversions are computed   *)
(* and not assumed.  Timestamps are left out: no operation modelled here   *)
(* branches on them.                                                       *)
(***************************************************************************)
EXTENDS Integers, Sequences, FiniteSets, TLC

VARIABLES
    db,          \* the storage file: its tables and their rows
    fkEnforced,  \* whether the store enforces the REFERENCES clauses
    nextUuid,    \* the number of the next random value new_id draws that
                 \* stays in the store (the value of a failed call leaves
                 \* no trace and is not told apart from the next one)
    migrated,    \* history: some init_db call has returned Ok
    supplied,    \* history: node id -> the params of the call that created
                 \* it; edge id -> the DbEdge create_edge returned (its
                 \* fields are those of the params)
    last,        \* the last operation called, its arguments and what it returned
    pc,          \* where the command-line process is: "idle", "ready"
    procs        \* two processes inside init_db on the same file: for each,
                 \* the statement it is at, the count it has read and the
                 \* migration steps it has started

vars == <<db, fkEnforced, nextUuid, migrated, supplied, last, pc, procs>>

(***************************************************************************)
(* Bounds of the model.                                                    *)
(***************************************************************************)
\* nodes and edges persisted over one behaviour (the ids that stay in use)
MaxIds == 3

\* length of the prefixes new_id is called with
MaxPrefixLen == 3

(***************************************************************************)
(* Text helpers.                                                           *)
(***************************************************************************)
\* char::is_whitespace, restricted to the characters of the model
IsSpace(ch) == ch = " "

\* str::trim (main.rs:207, db.rs:300, db.rs:382): drop leading and
\* trailing whitespace
RECURSIVE TrimStart(_)
TrimStart(s) ==
    IF s # <<>> /\ IsSpace(Head(s)) THEN TrimStart(Tail(s)) ELSE s

RECURSIVE TrimEnd(_)
TrimEnd(s) ==
    IF s # <<>> /\ IsSpace(s[Len(s)])
    THEN TrimEnd(SubSeq(s, 1, Len(s) - 1))
    ELSE s

trim(s) == TrimEnd(TrimStart(s))

\* char::to_lowercase on the characters of the model
LowerChar(ch) ==
    CASE ch = "A" -> "a"
      [] ch = "B" -> "b"
      [] OTHER -> ch

\* str::to_lowercase (db.rs:382)
to_lowercase(s) == [i \in 1..Len(s) |-> LowerChar(s[i])]

(***************************************************************************)
(* The store.  db.tables is the set of tables that exist; the other fields *)
(* are the rows of each table.  A connection state c carries the store, a  *)
(* count n of statements executed on it, the statement failAt at which the *)
(* store reports an error (0: none), whether the store enforces FOREIGN    *)
(* KEY clauses (fk), and the outcome so far.                               *)
(***************************************************************************)
EmptyDb ==
    [tables |-> {}, meta |-> {}, nodes |-> {}, node_props |-> {},
     edges |-> {}, edge_props |-> {}]

Connect(d, fk, failAt) ==
    [db |-> d, fk |-> fk, n |-> 0, failAt |-> failAt, ok |-> TRUE, err |-> "",
     steps |-> <<>>]

\* the next statement is the one the store fails
Faulty(c) == c.failAt = c.n + 1

Fail(c, msg) == [c EXCEPT !.ok = FALSE, !.err = msg, !.n = c.n + 1]

Done(c, d) == [c EXCEPT !.db = d, !.n = c.n + 1]

\* CREATE TABLE IF NOT EXISTS t (...)
CreateTableIfNotExists(c, t) ==
    IF ~c.ok THEN c
    ELSE IF Faulty(c) THEN Fail(c, "store error")
    ELSE Done(c, [c.db EXCEPT !.tables = @ \cup {t}])

(***************************************************************************)
(* Schema migration (db.rs:105-242).                                       *)
(***************************************************************************)
MigrationKey == "migration_count"

MetaRows(d) == {r \in d.meta : r.key = MigrationKey}

\* a variant of get_migration_count that writes the row without looking
\* whether it is there (INSERT OR REPLACE)
get_migration_count_reset(c0) ==
    LET c1 == CreateTableIfNotExists(c0, "_meta")
    IN  IF ~c1.ok THEN [c |-> c1, count |-> 0]
        ELSE IF Faulty(c1) THEN [c |-> Fail(c1, "store error"), count |-> 0]
        ELSE [c |-> Done(c1, [c1.db EXCEPT !.meta =
                                {[key |-> MigrationKey, val_int |-> 0]}]),
              count |-> 0]

\* db.rs:124-162.  Returns the connection state with field count.
get_migration_count(c0) ==
    LET c1 == CreateTableIfNotExists(c0, "_meta")
        \* SELECT val_int FROM _meta WHERE key = 'migration_count'
        c2 == IF ~c1.ok THEN c1
              ELSE IF Faulty(c1) THEN Fail(c1, "store error")
              ELSE Done(c1, c1.db)
        rows == MetaRows(c2.db)
    IN  IF ~c2.ok THEN [c |-> c2, count |-> 0]
        ELSE IF rows # {}
        THEN LET row == CHOOSE r \in rows : TRUE
             IN  IF row.val_int \in Int
                 THEN [c |-> c2, count |-> row.val_int]
                 ELSE [c |-> [c2 EXCEPT !.ok = FALSE,
                                        !.err = "Invalid migration count value"],
                       count |-> 0]
        ELSE \* INSERT INTO _meta (key, val_int) VALUES ('migration_count', 0)
             IF Faulty(c2) THEN [c |-> Fail(c2, "store error"), count |-> 0]
             ELSE [c |-> Done(c2, [c2.db EXCEPT !.meta =
                                     @ \cup {[key |-> MigrationKey, val_int |-> 0]}]),
                   count |-> 0]

\* db.rs:165-177: UPDATE _meta SET val_int = ? WHERE key = 'migration_count'
set_migration_count(c, count) ==
    IF ~c.ok THEN c
    ELSE IF Faulty(c) THEN Fail(c, "store error")
    ELSE Done(c, [c.db EXCEPT !.meta =
                    {IF r.key = MigrationKey THEN [r EXCEPT !.val_int = count] ELSE r
                       : r \in @}])

\* db.rs:179-242: four CREATE TABLE IF NOT EXISTS statements, each executed
\* on the connection by itself (no transaction around them)
migrations_v1(c) ==
    LET c1 == CreateTableIfNotExists(c, "nodes")
        c2 == CreateTableIfNotExists(c1, "node_props")
        c3 == CreateTableIfNotExists(c2, "edges")
    IN  CreateTableIfNotExists(c3, "edge_props")

\* a variant of NeedsV1 that is off by one
NeedsV1OffByOne(count) == count <= 1

\* the condition under which init_db runs step 1 (db.rs:111)
NeedsV1(count) == count < 1

\* db.rs:106-121.  steps records the ordinals of the migration steps the
\* call started, in order.
init_db(c0) ==
    LET g == get_migration_count(c0)
    IN  IF ~g.c.ok THEN g.c
        ELSE IF NeedsV1(g.count)
        THEN LET m == migrations_v1([g.c EXCEPT !.steps = Append(@, 1)])
             IN  set_migration_count(m, 1)
        ELSE g.c

(***************************************************************************)
(* JSON values (serde_json::Value) over the characters of the model: a     *)
(* number is a run of digits, a string is quoted, with the quote and the   *)
(* backslash escaped.                                                      *)
(***************************************************************************)
Quote == "\""
Backslash == "\\"

IsDigit(ch) == ch \in {"0", "1", "2"}

JsonNum(digits) == [t |-> "num", v |-> digits]
JsonStr(text) == [t |-> "str", v |-> text]

RECURSIVE EscapeText(_)
EscapeText(s) ==
    IF s = <<>> THEN <<>>
    ELSE IF Head(s) \in {Quote, Backslash}
    THEN <<Backslash, Head(s)>> \o EscapeText(Tail(s))
    ELSE <<Head(s)>> \o EscapeText(Tail(s))

\* a variant of ValueToString that writes the content of a string as it is
ValueToStringRaw(v) == v.v

\* Value::to_string (db.rs:301, db.rs:383)
ValueToString(v) ==
    IF v.t = "num" THEN v.v ELSE <<Quote>> \o EscapeText(v.v) \o <<Quote>>

\* the body of a JSON string after its opening quote: the decoded text and
\* what follows the closing quote
RECURSIVE ParseStrBody(_)
ParseStrBody(s) ==
    IF s = <<>> THEN [ok |-> FALSE, val |-> <<>>, rest |-> <<>>]
    ELSE IF Head(s) = Quote THEN [ok |-> TRUE, val |-> <<>>, rest |-> Tail(s)]
    ELSE IF Head(s) = Backslash
    THEN IF Len(s) >= 2 /\ s[2] \in {Quote, Backslash}
         THEN LET r == ParseStrBody(Tail(Tail(s)))
              IN  [r EXCEPT !.val = <<s[2]>> \o @]
         ELSE [ok |-> FALSE, val |-> <<>>, rest |-> <<>>]
    ELSE LET r == ParseStrBody(Tail(s))
         IN  [r EXCEPT !.val = <<Head(s)>> \o @]

\* serde_json::from_str::<Value> (main.rs:223, db.rs:574, db.rs:632):
\* whitespace around the value is skipped, anything else after it is an
\* error
FromStr(text) ==
    LET s == trim(text)
    IN  IF s = <<>> THEN [ok |-> FALSE, val |-> JsonStr(<<>>)]
        ELSE IF \A i \in 1..Len(s) : IsDigit(s[i])
        THEN IF Len(s) > 1 /\ s[1] = "0"
             THEN [ok |-> FALSE, val |-> JsonStr(<<>>)]
             ELSE [ok |-> TRUE, val |-> JsonNum(s)]
        ELSE IF Head(s) = Quote
        THEN LET r == ParseStrBody(Tail(s))
             IN  IF r.ok /\ r.rest = <<>>
                 THEN [ok |-> TRUE, val |-> JsonStr(r.val)]
                 ELSE [ok |-> FALSE, val |-> JsonStr(<<>>)]
        ELSE [ok |-> FALSE, val |-> JsonStr(<<>>)]

RECURSIVE JoinQuoted(_)
JoinQuoted(labels) ==
    IF labels = <<>> THEN <<>>
    ELSE <<Quote>> \o EscapeText(Head(labels)) \o <<Quote>>
         \o (IF Len(labels) > 1 THEN <<",">> ELSE <<>>)
         \o JoinQuoted(Tail(labels))

\* serde_json::to_string(&params.labels) (db.rs:278): a JSON array of strings
LabelsToJson(labels) == <<"[">> \o JoinQuoted(labels) \o <<"]">>

\* the inverse of LabelsToJson on what follows the opening bracket:
\* serde_json::from_str::<Vec<String>> on the labels column
RECURSIVE ParseLabelItems(_)
ParseLabelItems(s) ==
    IF s = <<>> \/ Head(s) # Quote THEN [ok |-> FALSE, val |-> <<>>]
    ELSE LET b == ParseStrBody(Tail(s))
         IN  IF ~b.ok \/ b.rest = <<>> THEN [ok |-> FALSE, val |-> <<>>]
             ELSE IF b.rest = <<"]">> THEN [ok |-> TRUE, val |-> <<b.val>>]
             ELSE IF Head(b.rest) = ","
             THEN LET r == ParseLabelItems(Tail(b.rest))
                  IN  [r EXCEPT !.val = <<b.val>> \o @]
             ELSE [ok |-> FALSE, val |-> <<>>]

LabelsFromJson(text) ==
    IF text = <<"[", "]">> THEN [ok |-> TRUE, val |-> <<>>]
    ELSE IF text # <<>> /\ Head(text) = "["
    THEN ParseLabelItems(Tail(text))
    ELSE [ok |-> FALSE, val |-> <<>>]

(***************************************************************************)
(* Identifiers (util.rs:3-5).                                              *)
(***************************************************************************)
\* length of the hyphenated text of a Uuid
UuidLen == 36

HexDigits == <<"0", "1", "2", "3", "4", "5", "6", "7", "8", "9">>

\* a variant of UuidText: the simple format, 32 digits without hyphens
UuidTextSimple(k) ==
    [i \in 1..(UuidLen - 4) |->
        IF i = 13 THEN "4"
        ELSE IF i = UuidLen - 4 THEN HexDigits[k + 1]
        ELSE "0"]

\* Uuid::new_v4().to_string() for the k-th random value drawn: 8-4-4-4-12
\* hexadecimal digits with the version digit 4; distinct draws give
\* distinct texts
UuidText(k) ==
    [i \in 1..UuidLen |->
        IF i \in {9, 14, 19, 24} THEN "-"
        ELSE IF i = 15 THEN "4"
        ELSE IF i = UuidLen THEN HexDigits[k + 1]
        ELSE "0"]

\* format!("{}-{}", prefix, Uuid::new_v4())
new_id(prefix, k) == prefix \o <<"-">> \o UuidText(k)

(***************************************************************************)
(* SQL statements of the repository.                                       *)
(***************************************************************************)
\* the columns of each table, as the CREATE TABLE statements of
\* migrations_v1 and get_migration_count give them
Columns(t) ==
    CASE t = "_meta" -> {"key", "val_txt", "val_int"}
      [] t = "nodes" -> {"id", "labels", "created_at", "updated_at"}
      [] t = "node_props" ->
            {"node_id", "key", "value", "created_at", "updated_at"}
      [] t = "edges" ->
            {"id", "edge_type", "from_node", "to_node", "directed",
             "created_at", "updated_at"}
      [] t = "edge_props" ->
            {"edge_id", "key", "value", "created_at", "updated_at"}
      [] OTHER -> {}

\* conn.prepare(sql): the statement names table t and the columns cols
Prepare(c, t, cols) ==
    IF ~c.ok THEN c
    ELSE IF Faulty(c) THEN Fail(c, "store error")
    ELSE IF t \notin c.db.tables THEN Fail(c, "no such table")
    ELSE IF ~(cols \subseteq Columns(t)) THEN Fail(c, "no such column")
    ELSE Done(c, c.db)

NodeIds(d) == {r.id : r \in d.nodes}
EdgeIds(d) == {r.id : r \in d.edges}

\* INSERT INTO nodes (db.rs:285-296); id is the PRIMARY KEY
InsertNode(c, row) ==
    IF ~c.ok THEN c
    ELSE IF Faulty(c) THEN Fail(c, "store error")
    ELSE IF "nodes" \notin c.db.tables THEN Fail(c, "no such table")
    ELSE IF row.id \in NodeIds(c.db) THEN Fail(c, "UNIQUE constraint failed")
    ELSE Done(c, [c.db EXCEPT !.nodes = @ \cup {row}])

\* INSERT INTO node_props (db.rs:302-320); PRIMARY KEY (node_id, key),
\* node_id REFERENCES nodes(id)
InsertNodeProp(c, row) ==
    IF ~c.ok THEN c
    ELSE IF Faulty(c) THEN Fail(c, "store error")
    ELSE IF "node_props" \notin c.db.tables THEN Fail(c, "no such table")
    ELSE IF \E r \in c.db.node_props : r.node_id = row.node_id /\ r.key = row.key
    THEN Fail(c, "UNIQUE constraint failed")
    ELSE IF c.fk /\ row.node_id \notin NodeIds(c.db)
    THEN Fail(c, "FOREIGN KEY constraint failed")
    ELSE Done(c, [c.db EXCEPT !.node_props = @ \cup {row}])

\* INSERT INTO edges (db.rs:356-378); id is the PRIMARY KEY, from_node and
\* to_node REFERENCES nodes(id)
InsertEdge(c, row) ==
    IF ~c.ok THEN c
    ELSE IF Faulty(c) THEN Fail(c, "store error")
    ELSE IF "edges" \notin c.db.tables THEN Fail(c, "no such table")
    ELSE IF row.id \in EdgeIds(c.db) THEN Fail(c, "UNIQUE constraint failed")
    ELSE IF c.fk /\ ~({row.from_node, row.to_node} \subseteq NodeIds(c.db))
    THEN Fail(c, "FOREIGN KEY constraint failed")
    ELSE Done(c, [c.db EXCEPT !.edges = @ \cup {row}])

\* INSERT INTO edge_props (db.rs:384-402); PRIMARY KEY (edge_id, key),
\* edge_id REFERENCES edges(id)
InsertEdgeProp(c, row) ==
    IF ~c.ok THEN c
    ELSE IF Faulty(c) THEN Fail(c, "store error")
    ELSE IF "edge_props" \notin c.db.tables THEN Fail(c, "no such table")
    ELSE IF \E r \in c.db.edge_props : r.edge_id = row.edge_id /\ r.key = row.key
    THEN Fail(c, "UNIQUE constraint failed")
    ELSE IF c.fk /\ row.edge_id \notin EdgeIds(c.db)
    THEN Fail(c, "FOREIGN KEY constraint failed")
    ELSE Done(c, [c.db EXCEPT !.edge_props = @ \cup {row}])

\* conn.transaction() (db.rs:282, db.rs:353)
Begin(c) ==
    IF ~c.ok THEN c
    ELSE IF Faulty(c) THEN Fail(c, "store error")
    ELSE Done(c, c.db)

\* tx.commit() (db.rs:324, db.rs:406)
Commit(c) ==
    IF ~c.ok THEN c
    ELSE IF Faulty(c) THEN Fail(c, "store error")
    ELSE Done(c, c.db)

\* a variant of EndTx for statements run on conn instead of tx: what was
\* written before the error stays
EndTxKeep(c, before) == c

\* a variant of EndTx that takes back the entity rows only
EndTxEntitiesOnly(c, before) ==
    IF c.ok THEN c
    ELSE [c EXCEPT !.db.nodes = before.nodes, !.db.edges = before.edges]

\* The end of a transaction.  Every statement of create_node and create_edge
\* runs on tx; an error leaves the function through `?`, tx is dropped
\* uncommitted and the store discards what it wrote: the store is as it was
\* before conn.transaction().
EndTx(c, before) == IF c.ok THEN c ELSE [c EXCEPT !.db = before]

\* the normalisation of a node property key (db.rs:300)
NodeKey(key) == trim(key)

\* the normalisation of an edge property key (db.rs:382)
EdgeKey(key) == to_lowercase(trim(key))

\* the loop of db.rs:299-321 over the entries of params.props not yet
\* visited (a HashMap: the order of the entries is not fixed)
RECURSIVE InsertNodeProps(_, _, _, _)
InsertNodeProps(c, id, props, keys) ==
    IF keys = {} THEN c
    ELSE LET key == CHOOSE k \in keys : TRUE
             row == [node_id |-> id, key |-> NodeKey(key),
                     value |-> ValueToString(props[key])]
         IN  InsertNodeProps(InsertNodeProp(c, row), id, props, keys \ {key})

\* db.rs:272-334.  k is the random value new_id draws.
create_node(c0, k, params) ==
    LET id == new_id(<<"n">>, k)
        t0 == Begin(c0)
        t1 == InsertNode(t0, [id |-> id, labels |-> LabelsToJson(params.labels)])
        t2 == InsertNodeProps(t1, id, params.props, DOMAIN params.props)
        t3 == EndTx(Commit(t2), c0.db)
    IN  [c |-> t3,
         val |-> [id |-> id, labels |-> params.labels, props |-> params.props]]

\* the loop of db.rs:381-403
RECURSIVE InsertEdgeProps(_, _, _, _)
InsertEdgeProps(c, id, props, keys) ==
    IF keys = {} THEN c
    ELSE LET key == CHOOSE k \in keys : TRUE
             row == [edge_id |-> id, key |-> EdgeKey(key),
                     value |-> ValueToString(props[key])]
         IN  InsertEdgeProps(InsertEdgeProp(c, row), id, props, keys \ {key})

\* db.rs:344-419
create_edge(c0, k, params) ==
    LET id == new_id(<<"e">>, k)
        t0 == Begin(c0)
        t1 == InsertEdge(t0, [id |-> id, edge_type |-> params.edge_type,
                              from_node |-> params.from_node,
                              to_node |-> params.to_node,
                              directed |-> IF params.directed THEN 1 ELSE 0])
        t2 == InsertEdgeProps(t1, id, params.props, DOMAIN params.props)
        t3 == EndTx(Commit(t2), c0.db)
    IN  [c |-> t3,
         val |-> [id |-> id, edge_type |-> params.edge_type,
                  from_node |-> params.from_node, to_node |-> params.to_node,
                  directed |-> params.directed, props |-> params.props]]

\* a variant of check_node_exists without the WHERE clause
check_node_exists_any(c0, id) ==
    LET c1 == Prepare(c0, "nodes", {"id"})
    IN  [c |-> c1, val |-> c1.ok /\ NodeIds(c1.db) # {}]

\* db.rs:492-505: SELECT COUNT(*) > 0 FROM nodes WHERE id = ?
check_node_exists(c0, id) ==
    LET c1 == Prepare(c0, "nodes", {"id"})
    IN  [c |-> c1, val |-> c1.ok /\ id \in NodeIds(c1.db)]

\* db.rs:555-579: the rows of node_props of one node as a map; a value that
\* is no JSON text is an error
get_node_props(c0, node_id) ==
    LET c1 == Prepare(c0, "node_props", {"key", "value", "node_id"})
        rows == {r \in c1.db.node_props : r.node_id = node_id}
        bad == \E r \in rows : ~FromStr(r.value).ok
        keys == {r.key : r \in rows}
    IN  IF ~c1.ok THEN [c |-> c1, val |-> <<>>]
        ELSE IF bad
        THEN [c |-> [c1 EXCEPT !.ok = FALSE, !.err = "invalid JSON"], val |-> <<>>]
        ELSE [c |-> c1,
              val |-> [key \in keys |->
                         FromStr((CHOOSE r \in rows : r.key = key).value).val]]

\* db.rs:613-637: the rows of edge_props of one edge as a map; a value that
\* is no JSON text is an error
get_edge_props(c0, edge_id) ==
    LET c1 == Prepare(c0, "edge_props", {"key", "value", "edge_id"})
        rows == {r \in c1.db.edge_props : r.edge_id = edge_id}
        bad == \E r \in rows : ~FromStr(r.value).ok
        keys == {r.key : r \in rows}
    IN  IF ~c1.ok THEN [c |-> c1, val |-> <<>>]
        ELSE IF bad
        THEN [c |-> [c1 EXCEPT !.ok = FALSE, !.err = "invalid JSON"], val |-> <<>>]
        ELSE [c |-> c1,
              val |-> [key \in keys |->
                         FromStr((CHOOSE r \in rows : r.key = key).value).val]]

\* db.rs:586-611.  de is the outcome of de::from_row::<DbEdge>, which
\* decodes the row into the struct (directed is an INT column and a bool
\* field).
get_edge(c0, params, de) ==
    LET c1 == Prepare(c0, "edges", {"id", "edge_type", "from_node", "to_node",
                                    "directed", "created_at", "updated_at"})
        rows == {r \in c1.db.edges : r.id = params.id}
        none == [id |-> <<>>, edge_type |-> <<>>, from_node |-> <<>>,
                 to_node |-> <<>>, directed |-> FALSE, props |-> <<>>,
                 has_props |-> FALSE]
        row == CHOOSE r \in rows : TRUE
        edge == [id |-> row.id, edge_type |-> row.edge_type,
                 from_node |-> row.from_node, to_node |-> row.to_node,
                 directed |-> (row.directed # 0), props |-> <<>>,
                 has_props |-> FALSE]
    IN  IF ~c1.ok THEN [c |-> c1, val |-> none]
        ELSE IF rows = {}
        THEN [c |-> [c1 EXCEPT !.ok = FALSE, !.err = "query returned no rows"],
              val |-> none]
        ELSE IF ~de
        THEN [c |-> [c1 EXCEPT !.ok = FALSE, !.err = "deserialize"], val |-> none]
        ELSE IF params.with_props
        THEN LET p == get_edge_props(c1, params.id)
             IN  [c |-> p.c,
                  val |-> IF p.c.ok
                          THEN [edge EXCEPT !.props = p.val, !.has_props = TRUE]
                          ELSE none]
        ELSE [c |-> c1, val |-> edge]

\* the rows of nodes in the order the store scans them
RECURSIVE ScanNodes(_)
ScanNodes(rows) ==
    IF rows = {} THEN <<>>
    ELSE LET r == CHOOSE x \in rows : TRUE
         IN  <<r>> \o ScanNodes(rows \ {r})

\* a variant of ListRows that leaves props at None
RECURSIVE ListRowsNoProps(_, _)
ListRowsNoProps(c, scan) ==
    IF scan = <<>> THEN [c |-> c, val |-> <<>>]
    ELSE LET r == Head(scan)
             lab == LabelsFromJson(r.labels)
             rest == ListRowsNoProps(c, Tail(scan))
         IN  IF ~lab.ok
             THEN [c |-> [c EXCEPT !.ok = FALSE, !.err = "invalid JSON"],
                   val |-> <<>>]
             ELSE [c |-> rest.c,
                   val |-> IF rest.c.ok
                           THEN <<[id |-> r.id, labels |-> lab.val,
                                   props |-> <<>>]>> \o rest.val
                           ELSE <<>>]

\* the loop of db.rs:435-457: each row is decoded (the labels column is
\* JSON text), its properties are read with get_node_props, and the node is
\* pushed; the first error leaves the function
RECURSIVE ListRows(_, _)
ListRows(c, scan) ==
    IF scan = <<>> THEN [c |-> c, val |-> <<>>]
    ELSE LET r == Head(scan)
             lab == LabelsFromJson(r.labels)
             p == get_node_props(c, r.id)
             rest == ListRows(p.c, Tail(scan))
         IN  IF ~lab.ok
             THEN [c |-> [c EXCEPT !.ok = FALSE, !.err = "invalid JSON"],
                   val |-> <<>>]
             ELSE IF ~p.c.ok THEN [c |-> p.c, val |-> <<>>]
             ELSE [c |-> rest.c,
                   val |-> IF rest.c.ok
                           THEN <<[id |-> r.id, labels |-> lab.val,
                                   props |-> p.val]>> \o rest.val
                           ELSE <<>>]

\* db.rs:423-460: SELECT id, labels, created_at, updated_at FROM nodes
list_nodes(c0) ==
    LET c1 == Prepare(c0, "nodes", {"id", "labels", "created_at", "updated_at"})
    IN  IF ~c1.ok THEN [c |-> c1, val |-> <<>>]
        ELSE ListRows(c1, ScanNodes(c1.db.nodes))

\* db.rs:705-707: the body is todo!(), which panics; the function takes the
\* connection only and executes no statement
delete_node(c0) ==
    [c |-> [c0 EXCEPT !.ok = FALSE, !.err = "not yet implemented"]]

\* db.rs:528-553.  The statement names the column node_type.  de is the
\* outcome of de::from_row::<DbNode>, which decodes the row into the
\* struct (the labels column holds JSON text).
get_node(c0, params, de) ==
    LET c1 == Prepare(c0, "nodes", {"id", "node_type", "created_at", "updated_at"})
        rows == {r \in c1.db.nodes : r.id = params.id}
        none == [id |-> <<>>, labels |-> <<>>, props |-> <<>>, has_props |-> FALSE]
    IN  IF ~c1.ok THEN [c |-> c1, val |-> none]
        ELSE IF rows = {}
        THEN [c |-> [c1 EXCEPT !.ok = FALSE, !.err = "query returned no rows"],
              val |-> none]
        ELSE IF ~de.ok
        THEN [c |-> [c1 EXCEPT !.ok = FALSE, !.err = "deserialize"], val |-> none]
        ELSE IF params.with_props
        THEN LET p == get_node_props(c1, params.id)
             IN  [c |-> p.c,
                  val |-> [id |-> params.id, labels |-> de.labels,
                           props |-> p.val, has_props |-> TRUE]]
        ELSE [c |-> c1,
              val |-> [id |-> params.id, labels |-> de.labels, props |-> <<>>,
                       has_props |-> FALSE]]

\* the rows of edges in the order the store scans them
RECURSIVE ScanEdges(_)
ScanEdges(rows) ==
    IF rows = {} THEN <<>>
    ELSE LET r == CHOOSE x \in rows : TRUE
         IN  <<r>> \o ScanEdges(rows \ {r})

\* a variant of EdgesInWhere that leaves out NOT directed
EdgesInWhereAnyDirection(r, node_id) ==
    r.to_node = node_id \/ r.from_node = node_id

\* WHERE to_node = ? OR (NOT directed AND from_node = ?)  (db.rs:646)
EdgesInWhere(r, node_id) ==
    r.to_node = node_id \/ (r.directed = 0 /\ r.from_node = node_id)

\* a variant of EdgesOutWhere that looks at the source only
EdgesOutWhereSourceOnly(r, node_id) ==
    r.from_node = node_id

\* WHERE from_node = ? OR (NOT directed AND to_node = ?)  (db.rs:671)
EdgesOutWhere(r, node_id) ==
    r.from_node = node_id \/ (r.directed = 0 /\ r.to_node = node_id)

\* a variant of SelectIn that returns a row once for each of its endpoints
\* that matches (as a UNION ALL of two queries would)
RECURSIVE SelectInPerEndpoint(_, _)
SelectInPerEndpoint(scan, node_id) ==
    IF scan = <<>> THEN <<>>
    ELSE (IF Head(scan).to_node = node_id THEN <<Head(scan).id>> ELSE <<>>)
         \o (IF Head(scan).directed = 0 /\ Head(scan).from_node = node_id
             THEN <<Head(scan).id>> ELSE <<>>)
         \o SelectInPerEndpoint(Tail(scan), node_id)

\* the loop of db.rs:654-658 over the rows the query of edges_in returns
RECURSIVE SelectIn(_, _)
SelectIn(scan, node_id) ==
    IF scan = <<>> THEN <<>>
    ELSE (IF EdgesInWhere(Head(scan), node_id) THEN <<Head(scan).id>> ELSE <<>>)
         \o SelectIn(Tail(scan), node_id)

\* a variant of SelectOut that returns a row once for each of its
\* endpoints that matches
RECURSIVE SelectOutPerEndpoint(_, _)
SelectOutPerEndpoint(scan, node_id) ==
    IF scan = <<>> THEN <<>>
    ELSE (IF Head(scan).from_node = node_id THEN <<Head(scan).id>> ELSE <<>>)
         \o (IF Head(scan).directed = 0 /\ Head(scan).to_node = node_id
             THEN <<Head(scan).id>> ELSE <<>>)
         \o SelectOutPerEndpoint(Tail(scan), node_id)

\* the loop of db.rs:679-683 over the rows the query of edges_out returns
RECURSIVE SelectOut(_, _)
SelectOut(scan, node_id) ==
    IF scan = <<>> THEN <<>>
    ELSE (IF EdgesOutWhere(Head(scan), node_id) THEN <<Head(scan).id>> ELSE <<>>)
         \o SelectOut(Tail(scan), node_id)

\* db.rs:639-662
get_node_edges_in(c0, node_id) ==
    LET c1 == Prepare(c0, "edges", {"id", "to_node", "directed", "from_node"})
    IN  [c |-> c1,
         val |-> IF c1.ok THEN SelectIn(ScanEdges(c1.db.edges), node_id) ELSE <<>>]

\* db.rs:664-687
get_node_edges_out(c0, node_id) ==
    LET c1 == Prepare(c0, "edges", {"id", "from_node", "directed", "to_node"})
    IN  [c |-> c1,
         val |-> IF c1.ok THEN SelectOut(ScanEdges(c1.db.edges), node_id) ELSE <<>>]

(***************************************************************************)
(* The command handlers of main.rs.                                        *)
(***************************************************************************)
\* the position of the first '=' of p, 0 when there is none
RECURSIVE FirstEq(_, _)
FirstEq(p, i) ==
    IF i > Len(p) THEN 0
    ELSE IF p[i] = "=" THEN i
    ELSE FirstEq(p, i + 1)

MapInsert(m, key, v) ==
    [x \in (DOMAIN m) \cup {key} |-> IF x = key THEN v ELSE m[x]]

\* one turn of the loop of main.rs:198-230 (and main.rs:260-292): p is
\* split at its first '=', the key is trimmed, the value is read as JSON
\* or else taken as a string
ParseProp(p) ==
    LET e == FirstEq(p, 1)
        key == trim(IF e = 0 THEN p ELSE SubSeq(p, 1, e - 1))
        value == SubSeq(p, e + 1, Len(p))
        json == FromStr(value)
    IN  IF key = <<>>
        THEN [ok |-> FALSE, err |-> "Empty key in key-value pair.",
              key |-> key, val |-> JsonStr(<<>>)]
        ELSE IF e = 0
        THEN [ok |-> FALSE, err |-> "Failed to parse key-value pair.",
              key |-> key, val |-> JsonStr(<<>>)]
        ELSE [ok |-> TRUE, err |-> "", key |-> key,
              val |-> IF json.ok THEN json.val ELSE JsonStr(value)]

\* a variant of ParseProps that passes over an argument that is refused
RECURSIVE ParsePropsSkipBad(_, _)
ParsePropsSkipBad(args, props) ==
    IF args = <<>> THEN [ok |-> TRUE, err |-> "", props |-> props]
    ELSE LET r == ParseProp(Head(args))
         IN  IF ~r.ok THEN ParsePropsSkipBad(Tail(args), props)
             ELSE ParsePropsSkipBad(Tail(args), MapInsert(props, r.key, r.val))

\* the loop of main.rs:197-230: props.insert(key, value) for each argument
\* in order, leaving at the first argument that is refused
RECURSIVE ParseProps(_, _)
ParseProps(args, props) ==
    IF args = <<>> THEN [ok |-> TRUE, err |-> "", props |-> props]
    ELSE LET r == ParseProp(Head(args))
         IN  IF ~r.ok THEN [ok |-> FALSE, err |-> r.err, props |-> props]
             ELSE ParseProps(Tail(args), MapInsert(props, r.key, r.val))

NoVal == [id |-> <<>>]

\* main.rs:193-244, CreateCmd::Node.  called: db::create_node was called.
cmd_create_node(c0, k, args) ==
    LET p == ParseProps(args.prop, <<>>)
    IN  IF ~p.ok
        THEN [c |-> [c0 EXCEPT !.ok = FALSE, !.err = p.err], val |-> NoVal,
              called |-> FALSE, params |-> <<>>]
        ELSE LET params == [labels |-> args.label, props |-> p.props]
                 r == create_node(c0, k, params)
             IN  [c |-> r.c, val |-> r.val, called |-> TRUE, params |-> params]

SourceMissing == "Source node does not exist."

\* the message of main.rs:255, returned when the target is missing
TargetMissing == "Source node does not exist."

\* a variant of CheckEndpoints that looks up the source only
CheckSourceOnly(c0, args) ==
    LET f == check_node_exists(c0, args.from_node)
    IN  IF ~f.c.ok THEN f.c
        ELSE IF ~f.val THEN [f.c EXCEPT !.ok = FALSE, !.err = SourceMissing]
        ELSE f.c

\* main.rs:248-256: both endpoints are looked up before anything else
CheckEndpoints(c0, args) ==
    LET f == check_node_exists(c0, args.from_node)
        t == check_node_exists(f.c, args.to_node)
    IN  IF ~f.c.ok THEN f.c
        ELSE IF ~f.val THEN [f.c EXCEPT !.ok = FALSE, !.err = SourceMissing]
        ELSE IF args.from_node = args.to_node THEN f.c
        ELSE IF ~t.c.ok THEN t.c
        ELSE IF ~t.val THEN [t.c EXCEPT !.ok = FALSE, !.err = TargetMissing]
        ELSE t.c

\* main.rs:245-309, CreateCmd::Edge
cmd_create_edge(c0, k, args) ==
    LET c1 == CheckEndpoints(c0, args)
        p == ParseProps(args.prop, <<>>)
    IN  IF ~c1.ok
        THEN [c |-> c1, val |-> NoVal, called |-> FALSE]
        ELSE IF ~p.ok
        THEN [c |-> [c1 EXCEPT !.ok = FALSE, !.err = p.err], val |-> NoVal,
              called |-> FALSE]
        ELSE LET r == create_edge(c1, k,
                        [edge_type |-> args.edge_type,
                         from_node |-> args.from_node,
                         to_node |-> args.to_node,
                         directed |-> args.directed,
                         props |-> p.props])
             IN  [c |-> r.c, val |-> r.val, called |-> TRUE]

\* main.rs:328-335: an adjacency query runs only if its flag is given; it
\* is not reached when an earlier call has returned an error
EdgesInIf(flag, c, id) ==
    IF flag /\ c.ok THEN get_node_edges_in(c, id) ELSE [c |-> c, val |-> <<>>]

EdgesOutIf(flag, c, id) ==
    IF flag /\ c.ok THEN get_node_edges_out(c, id) ELSE [c |-> c, val |-> <<>>]

\* main.rs:337-346: what the command prints
CmdGetNodeOutput(n, i, o) ==
    [c |-> o.c, val |-> n.val, edges_in |-> i.val, edges_out |-> o.val]

CmdGetNodeEdgesOut(n, i, args) ==
    CmdGetNodeOutput(n, i, EdgesOutIf(args.edges_out, i.c, args.id))

CmdGetNodeEdgesIn(n, args) ==
    CmdGetNodeEdgesOut(n, EdgesInIf(args.edges_in, n.c, args.id), args)

\* main.rs:320-349, GetCmd::Node: the node is read first, then the edges
\* in, then the edges out
cmd_get_node(c0, args, de) ==
    CmdGetNodeEdgesIn(
        get_node(c0, [id |-> args.id, with_props |-> args.props], de), args)

(***************************************************************************)
(* Inputs.                                                                 *)
(***************************************************************************)
Txt1(a) == <<a>>
Txt2(a, b) == <<a, b>>
Txt3(a, b, c) == <<a, b, c>>

\* params of create_node: labels in the caller's order, and a property map
\* with two keys of which one is in upper case and one has a leading
\* blank, or with two keys that differ by a leading blank only (the second
\* insert of that map hits the primary key of node_props)
NodeParamChoices ==
    {[labels |-> <<Txt1("Q"), Txt1("P")>>,
      props |-> (Txt1("A") :> JsonNum(Txt1("1")))
                @@ (Txt2(" ", "a") :> JsonStr(Txt1("x")))],
     [labels |-> <<Txt1("P")>>,
      props |-> (Txt2(" ", "a") :> JsonNum(Txt1("1")))
                @@ (Txt1("a") :> JsonStr(Txt1("x")))]}

\* the directed flag and the property map of create_edge
EdgeShapeChoices ==
    {[directed |-> TRUE, props |-> <<>>],
     [directed |-> FALSE, props |-> (Txt1("A") :> JsonNum(Txt1("1")))],
     [directed |-> TRUE,
      props |-> (Txt1("A") :> JsonNum(Txt1("1")))
                @@ (Txt1("a") :> JsonNum(Txt1("2")))]}

\* the arguments of `create node`: --label and --prop.  The --prop lists
\* are: none; a=1; a=1 a=x (one key twice); a=1 b (no separator);
\* " =1" (empty key); b=" c=" 1" (a text that is no JSON, and a number
\* after a blank)
CmdNodeArgChoices ==
    {[label |-> <<Txt1("P")>>, prop |-> <<>>],
     [label |-> <<Txt1("Q"), Txt1("P")>>, prop |-> <<Txt3("a", "=", "1")>>],
     [label |-> <<Txt1("P")>>,
      prop |-> <<Txt3("a", "=", "1"), Txt3("a", "=", "x")>>],
     [label |-> <<Txt1("P")>>, prop |-> <<Txt3("a", "=", "1"), Txt1("b")>>],
     [label |-> <<>>, prop |-> <<Txt3(" ", "=", "1")>>],
     [label |-> <<Txt1("P")>>,
      prop |-> <<Txt3("b", "=", Quote), <<"c", "=", " ", "1">>>>]}

\* --directed and --prop of `create edge`
CmdEdgeArgChoices ==
    {[directed |-> TRUE, prop |-> <<>>],
     [directed |-> FALSE, prop |-> <<Txt3("A", "=", "x")>>],
     [directed |-> TRUE, prop |-> <<Txt1("b")>>]}

\* --props, --edges-in and --edges-out of `get node`: none, or all three
CmdGetNodeFlagChoices ==
    {[props |-> FALSE, edges_in |-> FALSE, edges_out |-> FALSE],
     [props |-> TRUE, edges_in |-> TRUE, edges_out |-> TRUE]}

EdgeTypes == {Txt1("k")}

\* an id no node has
MissingId == Txt2("n", "o")

\* an id no edge has
MissingEdgeId == Txt2("e", "o")

\* the edge ids a caller can name
KnownEdgeIds == EdgeIds(db) \cup {MissingEdgeId}

\* the ids a caller can name: those of the nodes, and one no node has
KnownNodeIds == NodeIds(db) \cup {MissingId}

\* the stored migration count; 0 when the row is not there
Version(d) ==
    IF MetaRows(d) = {} THEN 0 ELSE (CHOOSE r \in MetaRows(d) : TRUE).val_int

\* The statements one call executes, and so where the store can fail
\* within it (0: nowhere).  init_db: CREATE TABLE _meta and the SELECT, then
\* the INSERT of the row if it is missing, then the four CREATE TABLE and
\* the UPDATE if the count is below 1.
InitFailPoints ==
    0..(IF Version(db) >= 1 THEN 2 ELSE IF MetaRows(db) = {} THEN 8 ELSE 7)

\* create_node, create_edge: BEGIN, the entity, one INSERT per property,
\* COMMIT
CallFailPoints(props) == 0..(3 + Cardinality(DOMAIN props))

\* a command: the lookups of the two endpoints (create edge), then as the
\* repository call
CmdFailPoints(prop) == 0..(5 + Len(prop))

\* the processes that run init_db at the same time
Procs == {1, 2}

(***************************************************************************)
(* The repository called directly (specification Spec).  As main does, a   *)
(* caller uses the repository on a file only after an init_db call on it   *)
(* has returned Ok (main.rs:184-188 leaves the process otherwise).         *)
(***************************************************************************)
Init ==
    /\ db = EmptyDb
    /\ fkEnforced \in BOOLEAN
    /\ nextUuid = 1
    /\ migrated = FALSE
    /\ supplied = <<>>
    /\ last = [op |-> "none"]
    /\ pc = "idle"
    /\ procs = [p \in Procs |-> [at |-> "create_meta", count |-> 0,
                                 steps |-> <<>>]]

InitResult(c) ==
    [op |-> "init_db", ok |-> c.ok, err |-> c.err, steps |-> c.steps]

InitDb(failAt) ==
    LET c == init_db(Connect(db, fkEnforced, failAt))
    IN  /\ db' = c.db
        /\ migrated' = (migrated \/ c.ok)
        /\ last' = InitResult(c)
        /\ UNCHANGED <<procs, fkEnforced, nextUuid, supplied, pc>>

CreateNode(params, failAt) ==
    LET r == create_node(Connect(db, fkEnforced, failAt), nextUuid, params)
    IN  /\ migrated
        /\ nextUuid <= MaxIds
        /\ db' = r.c.db
        /\ nextUuid' = IF r.c.ok THEN nextUuid + 1 ELSE nextUuid
        /\ supplied' = IF r.c.ok THEN MapInsert(supplied, r.val.id, params)
                       ELSE supplied
        /\ last' = [op |-> "create_node", ok |-> r.c.ok, err |-> r.c.err,
                    id |-> r.val.id]
        /\ UNCHANGED <<procs, fkEnforced, migrated, pc>>

CreateEdge(params, failAt) ==
    LET r == create_edge(Connect(db, fkEnforced, failAt), nextUuid, params)
    IN  /\ migrated
        /\ nextUuid <= MaxIds
        /\ db' = r.c.db
        /\ nextUuid' = IF r.c.ok THEN nextUuid + 1 ELSE nextUuid
        /\ supplied' = IF r.c.ok THEN MapInsert(supplied, r.val.id, r.val)
                       ELSE supplied
        /\ last' = [op |-> "create_edge", ok |-> r.c.ok, err |-> r.c.err,
                    id |-> r.val.id,
                    from_node |-> params.from_node, to_node |-> params.to_node]
        /\ UNCHANGED <<procs, fkEnforced, migrated, pc>>

GetNode(params, deOk) ==
    LET rows == {r \in db.nodes : r.id = params.id}
        lab == IF rows = {} THEN [ok |-> FALSE, val |-> <<>>]
               ELSE LabelsFromJson((CHOOSE r \in rows : TRUE).labels)
        r == get_node(Connect(db, fkEnforced, 0), params,
                      [ok |-> deOk /\ lab.ok, labels |-> lab.val])
    IN  /\ migrated
        /\ last' = [op |-> "get_node", ok |-> r.c.ok, err |-> r.c.err,
                    id |-> params.id, with_props |-> params.with_props,
                    val |-> r.val]
        /\ UNCHANGED <<procs, db, fkEnforced, nextUuid, migrated, supplied, pc>>

GetNodeEdges(node_id) ==
    LET i == get_node_edges_in(Connect(db, fkEnforced, 0), node_id)
        o == get_node_edges_out(Connect(db, fkEnforced, 0), node_id)
    IN  /\ migrated
        /\ last' = [op |-> "get_node_edges", ok |-> i.c.ok /\ o.c.ok,
                    id |-> node_id, edges_in |-> i.val, edges_out |-> o.val]
        /\ UNCHANGED <<procs, db, fkEnforced, nextUuid, migrated, supplied, pc>>

GetEdge(params, deOk) ==
    LET r == get_edge(Connect(db, fkEnforced, 0), params, deOk)
    IN  /\ migrated
        /\ db' = r.c.db
        /\ last' = [op |-> "get_edge", ok |-> r.c.ok, err |-> r.c.err,
                    id |-> params.id, with_props |-> params.with_props,
                    val |-> r.val]
        /\ UNCHANGED <<procs, fkEnforced, nextUuid, migrated, supplied, pc>>

ListNodes ==
    LET r == list_nodes(Connect(db, fkEnforced, 0))
    IN  /\ migrated
        /\ last' = [op |-> "list_nodes", ok |-> r.c.ok, err |-> r.c.err,
                    val |-> r.val]
        /\ UNCHANGED <<procs, db, fkEnforced, nextUuid, migrated, supplied, pc>>

CheckNodeExists(id) ==
    LET r == check_node_exists(Connect(db, fkEnforced, 0), id)
    IN  /\ migrated
        /\ db' = r.c.db
        /\ last' = [op |-> "check_node_exists", ok |-> r.c.ok, id |-> id,
                    val |-> r.val]
        /\ UNCHANGED <<procs, fkEnforced, nextUuid, migrated, supplied, pc>>

\* the call panics; the store is as the statements executed left it
DeleteNode ==
    LET r == delete_node(Connect(db, fkEnforced, 0))
    IN  /\ migrated
        /\ db' = r.c.db
        /\ last' = [op |-> "delete_node", ok |-> r.c.ok, err |-> r.c.err]
        /\ UNCHANGED <<procs, fkEnforced, nextUuid, migrated, supplied, pc>>

Next ==
    \/ \E failAt \in InitFailPoints : InitDb(failAt)
    \/ \E params \in NodeParamChoices :
          \E failAt \in CallFailPoints(params.props) : CreateNode(params, failAt)
    \/ \E t \in EdgeTypes, f \in KnownNodeIds, g \in KnownNodeIds,
          e \in EdgeShapeChoices :
          \E failAt \in CallFailPoints(e.props) :
          CreateEdge([edge_type |-> t, from_node |-> f, to_node |-> g,
                      directed |-> e.directed, props |-> e.props], failAt)
    \/ \E id \in KnownNodeIds, w \in BOOLEAN, deOk \in BOOLEAN :
          GetNode([id |-> id, with_props |-> w], deOk)
    \/ \E id \in KnownNodeIds : GetNodeEdges(id)
    \/ ListNodes
    \/ \E id \in KnownNodeIds : CheckNodeExists(id)
    \/ DeleteNode

Spec == Init /\ [][Next]_vars

(***************************************************************************)
(* Edges written and read back (specification SpecEdges): the operations   *)
(* that write the store, and get_edge.                                     *)
(***************************************************************************)
NextEdges ==
    \/ \E failAt \in InitFailPoints : InitDb(failAt)
    \/ \E params \in NodeParamChoices :
          \E failAt \in CallFailPoints(params.props) : CreateNode(params, failAt)
    \/ \E t \in EdgeTypes, f \in KnownNodeIds, g \in KnownNodeIds,
          e \in EdgeShapeChoices :
          \E failAt \in CallFailPoints(e.props) :
          CreateEdge([edge_type |-> t, from_node |-> f, to_node |-> g,
                      directed |-> e.directed, props |-> e.props], failAt)
    \/ \E id \in KnownEdgeIds, w \in BOOLEAN, deOk \in BOOLEAN :
          GetEdge([id |-> id, with_props |-> w], deOk)

SpecEdges == Init /\ [][NextEdges]_vars

(***************************************************************************)
(* Two processes in init_db on one file (specification SpecRace).  Each    *)
(* statement is executed by the store on its own (the code opens no        *)
(* transaction in init_db), so the statements of the two processes         *)
(* interleave in any order; busy is the store refusing the statement.      *)
(***************************************************************************)
\* the statement after CREATE TABLE t in migrations_v1, then the UPDATE
AfterTable(t) ==
    CASE t = "nodes" -> "node_props"
      [] t = "node_props" -> "edges"
      [] t = "edges" -> "edge_props"
      [] t = "edge_props" -> "update"

RaceConnect(busy) == Connect(db, fkEnforced, IF busy THEN 1 ELSE 0)

\* where a process is after a statement: on an error init_db returns it
RaceGoto(p, c, at, count, steps) ==
    procs' = [procs EXCEPT ![p] =
                IF c.ok THEN [at |-> at, count |-> count, steps |-> steps]
                ELSE [@ EXCEPT !.at = "failed"]]

\* db.rs:126-135: CREATE TABLE IF NOT EXISTS _meta
RaceCreateMeta(p, busy) ==
    LET c == CreateTableIfNotExists(RaceConnect(busy), "_meta")
    IN  /\ procs[p].at = "create_meta"
        /\ db' = c.db
        /\ RaceGoto(p, c, "select", 0, <<>>)
        /\ UNCHANGED <<fkEnforced, nextUuid, migrated, supplied, last, pc>>

\* db.rs:138-151: the SELECT; with a row the count is returned and init_db
\* goes on (db.rs:111), without one the INSERT is next
RaceSelect(p, busy) ==
    LET c == Prepare(RaceConnect(busy), "_meta", {"val_int", "key"})
        rows == MetaRows(db)
        count == (CHOOSE r \in rows : TRUE).val_int
    IN  /\ procs[p].at = "select"
        /\ db' = c.db
        /\ IF rows = {} THEN RaceGoto(p, c, "insert", 0, <<>>)
           ELSE IF NeedsV1(count) THEN RaceGoto(p, c, "nodes", count, <<1>>)
           ELSE RaceGoto(p, c, "done", count, <<>>)
        /\ migrated' = (migrated \/ (c.ok /\ rows # {} /\ ~NeedsV1(count)))
        /\ UNCHANGED <<fkEnforced, nextUuid, supplied, last, pc>>

\* db.rs:154-158: the INSERT of the row; key is the PRIMARY KEY of _meta
RaceInsert(p, busy) ==
    LET c0 == RaceConnect(busy)
        c == IF Faulty(c0) THEN Fail(c0, "store error")
             ELSE IF MetaRows(db) # {} THEN Fail(c0, "UNIQUE constraint failed")
             ELSE Done(c0, [db EXCEPT !.meta =
                              @ \cup {[key |-> MigrationKey, val_int |-> 0]}])
    IN  /\ procs[p].at = "insert"
        /\ db' = c.db
        /\ IF NeedsV1(0) THEN RaceGoto(p, c, "nodes", 0, <<1>>)
           ELSE RaceGoto(p, c, "done", 0, <<>>)
        /\ UNCHANGED <<fkEnforced, nextUuid, migrated, supplied, last, pc>>

\* one CREATE TABLE IF NOT EXISTS of migrations_v1 (db.rs:182-238)
RaceCreateTable(p, busy) ==
    LET t == procs[p].at
        c == CreateTableIfNotExists(RaceConnect(busy), t)
    IN  /\ t \in {"nodes", "node_props", "edges", "edge_props"}
        /\ db' = c.db
        /\ RaceGoto(p, c, AfterTable(t), procs[p].count, procs[p].steps)
        /\ UNCHANGED <<fkEnforced, nextUuid, migrated, supplied, last, pc>>

\* db.rs:113: set_migration_count(conn, 1), after which init_db returns Ok
RaceUpdate(p, busy) ==
    LET c == set_migration_count(RaceConnect(busy), 1)
    IN  /\ procs[p].at = "update"
        /\ db' = c.db
        /\ RaceGoto(p, c, "done", procs[p].count, procs[p].steps)
        /\ migrated' = (migrated \/ c.ok)
        /\ UNCHANGED <<fkEnforced, nextUuid, supplied, last, pc>>

NextRace ==
    \E p \in Procs, busy \in BOOLEAN :
        \/ RaceCreateMeta(p, busy)
        \/ RaceSelect(p, busy)
        \/ RaceInsert(p, busy)
        \/ RaceCreateTable(p, busy)
        \/ RaceUpdate(p, busy)

SpecRace == Init /\ [][NextRace]_vars

(***************************************************************************)
(* new_id on its own (specification SpecNewId): the function is called     *)
(* with any prefix, one random value per call.                             *)
(***************************************************************************)
PrefixChars == {"n", "e", "-"}

PrefixChoices == UNION {[1..n -> PrefixChars] : n \in 0..MaxPrefixLen}

NewId(prefix) ==
    /\ nextUuid <= MaxIds
    /\ last' = [op |-> "new_id", prefix |-> prefix,
                val |-> new_id(prefix, nextUuid)]
    /\ nextUuid' = nextUuid + 1
    /\ UNCHANGED <<procs, db, fkEnforced, migrated, supplied, pc>>

NextNewId == \E prefix \in PrefixChoices : NewId(prefix)

SpecNewId == Init /\ [][NextNewId]_vars

(***************************************************************************)
(* The command-line process (specification SpecCli): every run of the      *)
(* program calls init_db and, if that returns Ok, handles one command.     *)
(***************************************************************************)
\* a variant of Startup that goes on to the command whatever init_db returned
StartupIgnoreErr(failAt) ==
    LET c == init_db(Connect(db, fkEnforced, failAt))
    IN  /\ pc = "idle"
        /\ db' = c.db
        /\ migrated' = (migrated \/ c.ok)
        /\ last' = InitResult(c)
        /\ pc' = "ready"
        /\ UNCHANGED <<procs, fkEnforced, nextUuid, supplied>>

\* main.rs:184-188
Startup(failAt) ==
    LET c == init_db(Connect(db, fkEnforced, failAt))
    IN  /\ pc = "idle"
        /\ db' = c.db
        /\ migrated' = (migrated \/ c.ok)
        /\ last' = InitResult(c)
        /\ pc' = IF c.ok THEN "ready" ELSE "idle"
        /\ UNCHANGED <<procs, fkEnforced, nextUuid, supplied>>

CmdCreateNode(args, failAt) ==
    LET r == cmd_create_node(Connect(db, fkEnforced, failAt), nextUuid, args)
    IN  /\ pc = "ready"
        /\ nextUuid <= MaxIds
        /\ db' = r.c.db
        /\ nextUuid' = IF r.called /\ r.c.ok THEN nextUuid + 1 ELSE nextUuid
        /\ supplied' = IF r.c.ok THEN MapInsert(supplied, r.val.id, r.params)
                       ELSE supplied
        /\ last' = [op |-> "cmd_create_node", ok |-> r.c.ok, err |-> r.c.err,
                    id |-> r.val.id, called |-> r.called, prop |-> args.prop]
        /\ pc' = "idle"
        /\ UNCHANGED <<procs, fkEnforced, migrated>>

CmdCreateEdge(args, failAt) ==
    LET r == cmd_create_edge(Connect(db, fkEnforced, failAt), nextUuid, args)
    IN  /\ pc = "ready"
        /\ nextUuid <= MaxIds
        /\ db' = r.c.db
        /\ nextUuid' = IF r.called /\ r.c.ok THEN nextUuid + 1 ELSE nextUuid
        /\ last' = [op |-> "cmd_create_edge", ok |-> r.c.ok, err |-> r.c.err,
                    id |-> r.val.id, called |-> r.called, prop |-> args.prop,
                    from_node |-> args.from_node, to_node |-> args.to_node]
        /\ pc' = "idle"
        /\ UNCHANGED <<procs, fkEnforced, migrated, supplied>>

\* main.rs:32-141, `graphctl init`: the process calls init_db and leaves,
\* with status 1 if it returned an error
CmdInit(failAt) ==
    LET c == init_db(Connect(db, fkEnforced, failAt))
    IN  /\ pc = "idle"
        /\ db' = c.db
        /\ migrated' = (migrated \/ c.ok)
        /\ last' = [op |-> "cmd_init", ok |-> c.ok, err |-> c.err,
                    steps |-> c.steps]
        /\ UNCHANGED <<procs, fkEnforced, nextUuid, supplied, pc>>

DecodedLabels(lab, deOk) == [ok |-> deOk /\ lab.ok, labels |-> lab.val]

\* the outcome of de::from_row for the row of a node: the labels column
\* decoded, if the decoding succeeds
DecodeNodeRow(rows, deOk) ==
    IF rows = {} THEN [ok |-> FALSE, labels |-> <<>>]
    ELSE DecodedLabels(LabelsFromJson((CHOOSE r \in rows : TRUE).labels), deOk)

CmdGetNodeDone(r, args) ==
    /\ pc = "ready"
    /\ db' = r.c.db
    /\ last' = [op |-> "cmd_get_node", ok |-> r.c.ok, err |-> r.c.err,
                id |-> args.id, val |-> r.val,
                edges_in |-> r.edges_in, edges_out |-> r.edges_out]
    /\ pc' = "idle"
    /\ UNCHANGED <<procs, fkEnforced, nextUuid, migrated, supplied>>

CmdGetNode(args, deOk) ==
    CmdGetNodeDone(
        cmd_get_node(Connect(db, fkEnforced, 0), args,
                     DecodeNodeRow({r \in db.nodes : r.id = args.id}, deOk)),
        args)

NextCli ==
    \/ \E failAt \in InitFailPoints : Startup(failAt)
    \/ \E failAt \in InitFailPoints : CmdInit(failAt)
    \/ \E id \in KnownNodeIds, f \in CmdGetNodeFlagChoices, deOk \in BOOLEAN :
          CmdGetNode([id |-> id, props |-> f.props, edges_in |-> f.edges_in,
                      edges_out |-> f.edges_out], deOk)
    \/ \E args \in CmdNodeArgChoices :
          \E failAt \in CmdFailPoints(args.prop) : CmdCreateNode(args, failAt)
    \/ \E t \in EdgeTypes, f \in KnownNodeIds, g \in KnownNodeIds,
          e \in CmdEdgeArgChoices :
          \E failAt \in CmdFailPoints(e.prop) :
          CmdCreateEdge([edge_type |-> t, from_node |-> f, to_node |-> g,
                         directed |-> e.directed, prop |-> e.prop], failAt)

SpecCli == Init /\ [][NextCli]_vars

(***************************************************************************)
(* Properties.                                                             *)
(***************************************************************************)
InSeq(x, seq) == \E i \in 1..Len(seq) : seq[i] = x

EdgesIn(node_id) == get_node_edges_in(Connect(db, fkEnforced, 0), node_id).val
EdgesOut(node_id) == get_node_edges_out(Connect(db, fkEnforced, 0), node_id).val

\* the tables a file at migration version v holds besides _meta
StepTables(v) ==
    IF v >= 1 THEN {"nodes", "node_props", "edges", "edge_props"} ELSE {}

\* two --prop arguments that are accepted one by one and have the same key
HasDuplicateKey(prop) ==
    \E i, j \in 1..Len(prop) :
        /\ i < j
        /\ ParseProp(prop[i]).ok
        /\ ParseProp(prop[j]).ok
        /\ ParseProp(prop[i]).key = ParseProp(prop[j]).key

\* C1: get_node(id, with_props = true) on the id of a created node succeeds
\* and returns the labels, in order, and the property map that were
\* supplied to create_node.
C1_RoundTrip ==
    (last.op = "get_node" /\ last.with_props /\ last.err # "deserialize"
        /\ last.id \in DOMAIN supplied)
    => /\ last.ok
       /\ last.val.labels = supplied[last.id].labels
       /\ last.val.props = supplied[last.id].props

\* C2: a create_node or create_edge call that returns an error leaves the
\* store exactly as it was before the call, whichever statement failed.
C2_CreateIsAtomic ==
    [][(last'.op \in {"create_node", "create_edge"} /\ ~last'.ok)
        => db' = db]_vars

\* a create_node call failed on its second property insert, after the node
\* row and a property row had been written in the transaction
C2_Witness ==
    /\ last.op = "create_node"
    /\ ~last.ok
    /\ last.err = "UNIQUE constraint failed"

\* C3: a `create node` command whose --prop arguments give one key twice
\* fails, and no node row with the attempted id exists afterwards.
C3_DuplicateKeyRejected ==
    (last.op = "cmd_create_node" /\ HasDuplicateKey(last.prop))
    => (~last.ok /\ last.id \notin NodeIds(db))

\* C4: create_edge called with a from or to that is no node's id fails and
\* persists no edge row and no edge property row.
C4_MissingEndpointRejected ==
    (last.op = "create_edge"
        /\ ~({last.from_node, last.to_node} \subseteq NodeIds(db)))
    => /\ ~last.ok
       /\ last.id \notin EdgeIds(db)
       /\ \A r \in db.edge_props : r.edge_id # last.id

\* C5: when `create edge` is refused for a missing endpoint, the error says
\* which: the source when from is missing, and not the source when from
\* exists and to is missing.
C5_MissingEndpointNamed ==
    (last.op = "cmd_create_edge" /\ ~last.ok /\ last.err # "store error")
    => /\ last.from_node \notin NodeIds(db) => last.err = SourceMissing
       /\ (last.from_node \in NodeIds(db) /\ last.to_node \notin NodeIds(db))
            => last.err # SourceMissing

\* C6: after any sequence of `create node` and `create edge` commands, the
\* from_node and to_node of every edge row are ids of node rows.
C6_EdgesReferToNodes ==
    \A e \in db.edges :
        e.from_node \in NodeIds(db) /\ e.to_node \in NodeIds(db)

\* a `create edge` command has persisted an edge between two nodes
C6_Witness ==
    /\ last.op = "cmd_create_edge"
    /\ last.ok
    /\ last.from_node # last.to_node
    /\ last.id \in EdgeIds(db)

\* C7: once init_db has returned Ok, a later init_db call starts no
\* migration step, leaves the file (version and tables) unchanged, and
\* returns Ok unless the store itself reports an error.
C7_InitIdempotent ==
    [][(migrated /\ last'.op = "init_db")
        => /\ db' = db
           /\ last'.steps = <<>>
           /\ (last'.ok \/ last'.err = "store error")]_vars

\* an init_db call on a migrated file has returned Ok without a step
C7_Witness ==
    migrated /\ last.op = "init_db" /\ last.ok /\ last.steps = <<>>

\* C8: after an init_db call that returned an error, the tables of the file
\* are exactly those of its stored version.
C8_NoPartialStep ==
    (last.op = "init_db" /\ ~last.ok)
    => db.tables \ {"_meta"} = StepTables(Version(db))

\* C9: the stored migration version never decreases (and its row, once
\* written, stays), and the steps one init_db call starts are in strictly
\* ascending order, each above the version stored when the call began.
C9_VersionMonotone ==
    [][/\ Version(db') >= Version(db)
       /\ MetaRows(db) # {} => MetaRows(db') # {}
       /\ last'.op = "init_db" =>
            /\ \A i \in 1..Len(last'.steps) : last'.steps[i] > Version(db)
            /\ \A i, j \in 1..Len(last'.steps) :
                  i < j => last'.steps[i] < last'.steps[j]]_vars

\* an init_db call has run step 1 and stored version 1
C9_Witness ==
    /\ last.op = "init_db"
    /\ last.ok
    /\ last.steps = <<1>>
    /\ Version(db) = 1

\* C10 as stated: a directed edge between existing nodes, a self-loop
\* included, is in edges_out of its source and not in edges_in of it, and in
\* edges_in of its target and not in edges_out of it.
C10_DirectedExactlyOne ==
    \A e \in db.edges :
        (e.directed = 1 /\ {e.from_node, e.to_node} \subseteq NodeIds(db))
        => /\ InSeq(e.id, EdgesOut(e.from_node))
           /\ ~InSeq(e.id, EdgesIn(e.from_node))
           /\ InSeq(e.id, EdgesIn(e.to_node))
           /\ ~InSeq(e.id, EdgesOut(e.to_node))

\* C10 as amended: a directed edge between existing nodes is in edges_out
\* of its source and in edges_in of its target; when the two differ it is
\* in neither edges_in of the source nor edges_out of the target.
C10_DirectedAsymmetry ==
    \A e \in db.edges :
        (e.directed = 1 /\ {e.from_node, e.to_node} \subseteq NodeIds(db))
        => /\ InSeq(e.id, EdgesOut(e.from_node))
           /\ InSeq(e.id, EdgesIn(e.to_node))
           /\ e.from_node # e.to_node =>
                /\ ~InSeq(e.id, EdgesIn(e.from_node))
                /\ ~InSeq(e.id, EdgesOut(e.to_node))

\* a directed edge between two different nodes is stored
C10_Witness ==
    \E e \in db.edges :
        /\ e.directed = 1
        /\ e.from_node # e.to_node
        /\ {e.from_node, e.to_node} \subseteq NodeIds(db)

\* the elements of a sequence, and whether none of them occurs twice
Range(seq) == {seq[i] : i \in 1..Len(seq)}
NoRepeat(seq) == \A i, j \in 1..Len(seq) : seq[i] = seq[j] => i = j

\* C11: an undirected edge between A and B is in edges_out(A), edges_in(A),
\* edges_out(B) and edges_in(B).
C11_UndirectedSymmetry ==
    \A e \in db.edges :
        e.directed = 0
        => /\ InSeq(e.id, EdgesOut(e.from_node))
           /\ InSeq(e.id, EdgesIn(e.from_node))
           /\ InSeq(e.id, EdgesOut(e.to_node))
           /\ InSeq(e.id, EdgesIn(e.to_node))

\* an undirected edge between two different nodes is stored
C11_Witness ==
    \E e \in db.edges :
        /\ e.directed = 0
        /\ e.from_node # e.to_node
        /\ {e.from_node, e.to_node} \subseteq NodeIds(db)

\* C12: edges_out(n) holds exactly the ids of the edges that are directed
\* with source n or undirected with n at either end, each id once.
C12_EdgesOutExact ==
    migrated =>
    \A n \in KnownNodeIds :
        /\ Range(EdgesOut(n))
             = {e.id : e \in {x \in db.edges :
                    \/ x.directed = 1 /\ x.from_node = n
                    \/ x.directed = 0 /\ n \in {x.from_node, x.to_node}}}
        /\ NoRepeat(EdgesOut(n))

\* an undirected self-loop and another edge leaving the same node are stored
C12_Witness ==
    \E e, f \in db.edges :
        /\ e.directed = 0 /\ e.from_node = e.to_node
        /\ f.id # e.id /\ f.directed = 1 /\ f.from_node = e.from_node
        /\ Len(EdgesOut(e.from_node)) >= 2

\* C13: edges_in(n) holds exactly the ids of the edges that are directed
\* with target n or undirected with n at either end, each id once.
C13_EdgesInExact ==
    migrated =>
    \A n \in KnownNodeIds :
        /\ Range(EdgesIn(n))
             = {e.id : e \in {x \in db.edges :
                    \/ x.directed = 1 /\ x.to_node = n
                    \/ x.directed = 0 /\ n \in {x.from_node, x.to_node}}}
        /\ NoRepeat(EdgesIn(n))

\* an undirected self-loop and another edge arriving at the same node are
\* stored
C13_Witness ==
    \E e, f \in db.edges :
        /\ e.directed = 0 /\ e.from_node = e.to_node
        /\ f.id # e.id /\ f.directed = 1 /\ f.to_node = e.to_node
        /\ Len(EdgesIn(e.to_node)) >= 2

\* the store after a node, its property rows, the edges at it and their
\* property rows are removed
CascadeDelete(d, id) ==
    LET gone == {e \in d.edges : id \in {e.from_node, e.to_node}}
    IN  [d EXCEPT !.nodes = {r \in @ : r.id # id},
                  !.node_props = {r \in @ : r.node_id # id},
                  !.edges = @ \ gone,
                  !.edge_props = {r \in @ : r.edge_id \notin {e.id : e \in gone}}]

\* C14: a delete_node call on a store that holds nodes removes one node
\* row with its property rows, the edges at that node and their property
\* rows, and nothing else.
C14_DeleteCascades ==
    [][(last'.op = "delete_node" /\ NodeIds(db) # {})
        => \E id \in NodeIds(db) : db' = CascadeDelete(db, id)]_vars

\* C15: get_node fails with the no-row error when no node has the id, and
\* otherwise succeeds and returns the node of that id, with properties
\* exactly when they were asked for.
C15_GetNodeFoundOrNot ==
    (last.op = "get_node" /\ last.err # "deserialize")
    => IF last.id \in NodeIds(db)
       THEN /\ last.ok
            /\ last.val.id = last.id
            /\ last.val.has_props = last.with_props
       ELSE ~last.ok /\ last.err = "query returned no rows"

\* the keys stored for an entity
StoredKeys(id) ==
    {r.key : r \in {x \in db.node_props : x.node_id = id}}
    \cup {r.key : r \in {x \in db.edge_props : x.edge_id = id}}

\* C16: for every node and edge created, the keys stored are the supplied
\* keys with surrounding whitespace trimmed and case preserved.
C16_OneKeyRule ==
    \A id \in DOMAIN supplied :
        StoredKeys(id) = {trim(key) : key \in DOMAIN supplied[id].props}

\* C17: every node_props row belongs to a node row and every edge_props
\* row to an edge row.
C17_NoOrphans ==
    /\ \A r \in db.node_props : r.node_id \in NodeIds(db)
    /\ \A r \in db.edge_props : r.edge_id \in EdgeIds(db)

\* a create call has failed on a store that holds property rows of both
\* kinds
C17_Witness ==
    /\ last.op \in {"create_node", "create_edge"}
    /\ ~last.ok
    /\ last.err = "UNIQUE constraint failed"
    /\ db.node_props # {}
    /\ db.edge_props # {}

\* C18: new_id(prefix) is the prefix, a hyphen, and 36 more characters.
C18_IdFormat ==
    last.op = "new_id"
    => /\ Len(last.val) = Len(last.prefix) + 1 + 36
       /\ SubSeq(last.val, 1, Len(last.prefix)) = last.prefix
       /\ last.val[Len(last.prefix) + 1] = "-"

\* new_id has been called with a prefix of two characters or more
C18_Witness ==
    last.op = "new_id" /\ Len(last.prefix) >= 2

\* C19: list_nodes succeeds and returns one entry per node row, each with
\* the property map its node_props rows hold.
C19_ListNodesComplete ==
    last.op = "list_nodes"
    => /\ last.ok
       /\ {last.val[i].id : i \in 1..Len(last.val)} = NodeIds(db)
       /\ Len(last.val) = Cardinality(NodeIds(db))
       /\ \A i \in 1..Len(last.val) :
            LET rows == {r \in db.node_props : r.node_id = last.val[i].id}
            IN  /\ DOMAIN last.val[i].props = {r.key : r \in rows}
                /\ \A r \in rows :
                      ValueToString(last.val[i].props[r.key]) = r.value

\* list_nodes has returned two nodes that have properties
C19_Witness ==
    /\ last.op = "list_nodes"
    /\ last.ok
    /\ Len(last.val) >= 2
    /\ \A i \in 1..Len(last.val) : DOMAIN last.val[i].props # {}

\* C20: check_node_exists returns Ok(true) exactly for the id of a node
\* row, and leaves every table as it was.
C20_NodeExistsPure ==
    [][last'.op = "check_node_exists"
        => /\ db' = db
           /\ last'.ok
           /\ last'.val <=> (last'.id \in NodeIds(db))]_vars

\* the answer was false on a store that holds a node
C20_Witness ==
    /\ last.op = "check_node_exists"
    /\ last.ok
    /\ ~last.val
    /\ NodeIds(db) # {}

\* the commands that call the node/edge repository or the adjacency queries
RepositoryCmds == {"cmd_create_node", "cmd_create_edge", "cmd_get_node"}

\* C21: a process handles a command only directly after its one init_db call
\* has returned Ok, and the command ends the process; init_db is called at
\* the start of a process only, and a process whose init_db call failed
\* ends there.
C21_InitOncePerRun ==
    [][/\ last'.op \in RepositoryCmds
            => /\ pc = "ready"
               /\ last.op = "init_db" /\ last.ok
               /\ pc' = "idle"
       /\ last'.op = "init_db"
            => /\ pc = "idle"
               /\ pc' = IF last'.ok THEN "ready" ELSE "idle"
       /\ last'.op = "cmd_init" => (pc = "idle" /\ pc' = "idle")]_vars

\* a `create edge` command has run create_edge to the end
C21_Witness ==
    last.op = "cmd_create_edge" /\ last.called /\ last.ok

\* a property argument without '=' or with nothing but whitespace before it
Malformed(p) ==
    \/ \A i \in 1..Len(p) : p[i] # "="
    \/ \E i \in 1..Len(p) :
          /\ p[i] = "="
          /\ \A j \in 1..(i - 1) : p[j] = " "

HasMalformed(prop) == \E i \in 1..Len(prop) : Malformed(prop[i])

ValidationErrors ==
    {"Empty key in key-value pair.", "Failed to parse key-value pair."}

\* C22 as stated: a `create node` or `create edge` command with a malformed
\* property argument fails with a validation error, create_node or
\* create_edge is not called, and the store is unchanged.
C22_MalformedPropRejected ==
    [][(last'.op \in {"cmd_create_node", "cmd_create_edge"}
            /\ HasMalformed(last'.prop))
        => /\ ~last'.ok
           /\ last'.err \in ValidationErrors
           /\ ~last'.called
           /\ db' = db]_vars

\* C22 as amended: such a command fails, create_node or create_edge is not
\* called and the store is unchanged; the error is a validation error,
\* unless the endpoint lookups `create edge` makes first have failed or
\* found an endpoint missing.
C22_MalformedPropWritesNothing ==
    [][(last'.op \in {"cmd_create_node", "cmd_create_edge"}
            /\ HasMalformed(last'.prop))
        => /\ ~last'.ok
           /\ ~last'.called
           /\ db' = db
           /\ \/ last'.err \in ValidationErrors
              \/ /\ last'.op = "cmd_create_edge"
                 /\ last'.err \in {SourceMissing, TargetMissing, "store error"}
                 /\ \/ last'.err = "store error"
                    \/ ~({last'.from_node, last'.to_node} \subseteq NodeIds(db))
       ]_vars

\* a `create node` command whose first property argument is well formed
\* and whose second is not has been refused
C22_Witness ==
    /\ last.op = "cmd_create_node"
    /\ Len(last.prop) = 2
    /\ ~Malformed(last.prop[1]) /\ Malformed(last.prop[2])
    /\ last.err \in ValidationErrors

\* what a property argument says: its key, and its value by the rule "the
\* JSON value if the text is JSON, else the text as a JSON string"
ArgKey(p) == trim(SubSeq(p, 1, FirstEq(p, 1) - 1))
ArgText(p) == SubSeq(p, FirstEq(p, 1) + 1, Len(p))
ArgValue(p) ==
    IF FromStr(ArgText(p)).ok THEN FromStr(ArgText(p)).val
    ELSE JsonStr(ArgText(p))

\* the value of the last argument of prop that has the key
WrittenValue(prop, key) ==
    LET is == {i \in 1..Len(prop) : ArgKey(prop[i]) = key}
    IN  ArgValue(prop[CHOOSE i \in is : \A j \in is : j <= i])

\* the properties of the entity the last command created, read back
ReadBack ==
    IF last.op = "cmd_create_node"
    THEN get_node_props(Connect(db, fkEnforced, 0), last.id)
    ELSE get_edge_props(Connect(db, fkEnforced, 0), last.id)

\* C23: after a successful `create node` or `create edge` command,
\* get_node_props / get_edge_props of the new entity return one value per
\* key given, and it is the value the argument's text stands for.
C23_ValuesRoundTrip ==
    (last.op \in {"cmd_create_node", "cmd_create_edge"} /\ last.ok)
    => LET keys == {ArgKey(last.prop[i]) : i \in 1..Len(last.prop)}
       IN  /\ ReadBack.c.ok
           /\ Cardinality(DOMAIN ReadBack.val) = Cardinality(keys)
           /\ \A key \in keys :
                 \E s \in DOMAIN ReadBack.val :
                    /\ to_lowercase(s) = to_lowercase(key)
                    /\ ReadBack.val[s] = WrittenValue(last.prop, key)

\* a command has stored a text that is no JSON and a number
C23_Witness ==
    /\ last.op = "cmd_create_node"
    /\ last.ok
    /\ \E s, t \in DOMAIN ReadBack.val :
          /\ ReadBack.val[s] = JsonStr(<<Quote>>)
          /\ ReadBack.val[t] = JsonNum(<<"1">>)

\* C25: get_edge(id, with_props = true) on the id of a created edge
\* succeeds and returns the edge_type, from_node, to_node, directed flag and
\* property map of the value create_edge returned.
C25_EdgeAsReturned ==
    (last.op = "get_edge" /\ last.with_props /\ last.err # "deserialize"
        /\ last.id \in DOMAIN supplied)
    => /\ last.ok
       /\ last.val.edge_type = supplied[last.id].edge_type
       /\ last.val.from_node = supplied[last.id].from_node
       /\ last.val.to_node = supplied[last.id].to_node
       /\ last.val.directed = supplied[last.id].directed
       /\ last.val.props = supplied[last.id].props

\* the same without the property map
EdgeFieldsAsReturned ==
    (last.op = "get_edge" /\ last.ok /\ last.id \in DOMAIN supplied)
    => /\ last.val.edge_type = supplied[last.id].edge_type
       /\ last.val.from_node = supplied[last.id].from_node
       /\ last.val.to_node = supplied[last.id].to_node
       /\ last.val.directed = supplied[last.id].directed

\* the processes that have run migration step v to its end
AppliedBy(v) ==
    {p \in Procs : procs[p].at = "done" /\ InSeq(v, procs[p].steps)}

\* C24: of two processes in init_db on one file, at most one applies
\* migration step 1.
C24_StepAppliedOnce ==
    Cardinality(AppliedBy(1)) <= 1

====
